---- MODULE Spec2Model ----
(***************************************************************************)
(* Model of tantowi/gini: the INI parser parseIni (gini.go), the loader    *)
(* LoadReader and the accessors of type Ini.                               *)
(*                                                                         *)
(* A Go string is modelled as a sequence of one-character strings, so that *)
(* slicing, trimming, lowercasing and searching are computed on the        *)
(* characters as the Go library functions compute them.                    *)
(***************************************************************************)
EXTENDS Integers, Sequences, FiniteSets, TLC

(***************************************************************************)
(* Bounds of the model.                                                    *)
(***************************************************************************)
\* largest number of lines (joined by "\n") of an input text made of Lines
MaxLines == 3
\* largest number of lines of an input text made of SectionLines
MaxSectionLines == 4

(***************************************************************************)
(* Go library functions used by gini.go, on sequences of characters.       *)
(***************************************************************************)
Uppers == <<"A","B","C","D","E","F","G","H","I","J","K","L","M",
            "N","O","P","Q","R","S","T","U","V","W","X","Y","Z">>
Lowers == <<"a","b","c","d","e","f","g","h","i","j","k","l","m",
            "n","o","p","q","r","s","t","u","v","w","x","y","z">>

\* unicode.IsSpace restricted to the characters a TLA+ string can spell
IsSpace(c) == c \in {" ", "\t", "\n", "\r", "\f"}

SetMin(S) == CHOOSE x \in S : \A y \in S : x <= y
SetMax(S) == CHOOSE x \in S : \A y \in S : x >= y

\* Go's s[lo:hi] (0-based, hi exclusive)
Slice(s, lo, hi) == SubSeq(s, lo + 1, hi)

\* strings.IndexAny(s, chars): 0-based index of the first character of s
\* that is in chars, -1 when there is none
IndexAny(s, chars) ==
    LET hits == {i \in 1..Len(s) : s[i] \in chars}
    IN  IF hits = {} THEN -1 ELSE SetMin(hits) - 1

LastIndexRune(s, r) ==
    LET hits == {i \in 1..Len(s) : s[i] = r}
    IN  IF hits = {} THEN -1 ELSE SetMax(hits) - 1

\* strings.IndexRune(s, r)
IndexRune(s, r) == IndexAny(s, {r})

\* strings.TrimSpace(s)
TrimSpace(s) ==
    LET keep == {i \in 1..Len(s) : ~IsSpace(s[i])}
    IN  IF keep = {} THEN <<>> ELSE SubSeq(s, SetMin(keep), SetMax(keep))

ToLowerChar(c) ==
    IF \E i \in 1..Len(Uppers) : Uppers[i] = c
    THEN Lowers[CHOOSE i \in 1..Len(Uppers) : Uppers[i] = c]
    ELSE c

\* strings.ToLower(s)
ToLower(s) == [i \in 1..Len(s) |-> ToLowerChar(s[i])]

ReadStringDropsLast(in, pos) ==
    LET nls == {i \in (pos + 1)..Len(in) : in[i] = "\n"}
    IN  IF nls = {}
        THEN [line |-> <<>>, pos |-> Len(in), eof |-> TRUE]
        ELSE [line |-> SubSeq(in, pos + 1, SetMin(nls)), pos |-> SetMin(nls),
              eof |-> FALSE]

\* (*bufio.Reader).ReadString('\n') at read offset pos of the text in:
\* the text up to and including the next "\n", or the rest of the text
\* together with io.EOF when no "\n" is left
ReadString(in, pos) ==
    LET nls == {i \in (pos + 1)..Len(in) : in[i] = "\n"}
    IN  IF nls = {}
        THEN [line |-> SubSeq(in, pos + 1, Len(in)), pos |-> Len(in), eof |-> TRUE]
        ELSE [line |-> SubSeq(in, pos + 1, SetMin(nls)), pos |-> SetMin(nls),
              eof |-> FALSE]

(***************************************************************************)
(* Go maps as functions with a finite domain.                              *)
(***************************************************************************)
EmptyMap == [x \in {} |-> <<>>]

\* m[k] = v
MapPut(m, k, v) == [x \in (DOMAIN m) \cup {k} |-> IF x = k THEN v ELSE m[x]]

\* all sequences that list the elements of S once each: the orders in which
\* "for k := range m" may visit the keys of a map
RECURSIVE Orders(_)
Orders(S) ==
    IF S = {} THEN {<<>>}
    ELSE UNION {{<<x>> \o t : t \in Orders(S \ {x})} : x \in S}

\* Go's nil
Nil == [nil |-> TRUE]

(***************************************************************************)
(* The input texts.                                                        *)
(***************************************************************************)
\* the lines the inputs are made of
Lines == {
    <<>>,                                           \* blank
    <<";", "[">>,                                   \* comment only
    <<"[", "a", "]">>,                              \* [a]
    <<" ", "[", " ", "A", " ", "]", " ">>,          \*  [ A ]
    <<"[", " ", "]">>,                              \* [ ]
    <<"[", "]">>,                                   \* []
    <<"[", "a", "b">>,                              \* [ab
    <<"a", "=", "x">>,                              \* a=x
    <<"A", " ", "=", " ", "Y", " ", "#", "c">>,     \* A = Y #c
    <<"a", "=">>,                                   \* a=
    <<" ", "=", "x">>,                              \*  =x
    <<"a", "b">>                                    \* ab
}

RECURSIVE Join(_)
\* the lines of ls separated by "\n"
Join(ls) ==
    IF Len(ls) = 0 THEN <<>>
    ELSE IF Len(ls) = 1 THEN ls[1]
    ELSE ls[1] \o <<"\n">> \o Join(Tail(ls))

\* fewer lines, for longer texts with several sections and keys
SectionLines == {
    <<"[", "a", "]">>,                              \* [a]
    <<" ", "[", " ", "A", " ", "]", " ">>,          \*  [ A ]
    <<"[", "b", "]">>,                              \* [b]
    <<"a", "=", "x">>,                              \* a=x
    <<"b", "=", "x", "=", "y">>,                    \* b=x=y
    <<"a", "b">>                                    \* ab
}

Texts(ls, max) == {Join(t) : t \in UNION {[1..n -> ls] : n \in 0..max}}

Inputs == Texts(Lines, MaxLines) \cup Texts(SectionLines, MaxSectionLines)

\* the names the accessors are called with
ArgNames == {<<"a">>, <<"A">>, <<"b">>}

(***************************************************************************)
(* State.                                                                  *)
(***************************************************************************)
VARIABLES
    input,        \* the text behind the reader
    pos,          \* number of characters the reader has handed out
    data,         \* parseIni: data
    sectionName,  \* parseIni: sectionName
    done,         \* parseIni: done
    lineNumber,   \* parseIni: lineNumber
    line,         \* parseIni: line, as the last iteration left it
    pc,           \* "parse", "ready" (LoadReader returned an *Ini), "failed"
    ini,          \* LoadReader's *Ini: Nil or [sections |-> map]
    err,          \* LoadReader's error: Nil or [msg |-> ..., line |-> ...]
    call,         \* the last accessor call: Nil or [op, section, key]
    ret,          \* what the last accessor call returned
    file,         \* LoadFile's *os.File: "none" (LoadReader was called with
                  \* a reader of the caller's), "open" or "closed"
    readerErr     \* the error other than io.EOF the reader has reported, or Nil

parseVars == <<pos, data, sectionName, done, lineNumber, line>>
callVars == <<call, ret>>
ioVars == <<file, readerErr>>
vars == <<input, pos, data, sectionName, done, lineNumber, line, pc, ini, err,
          call, ret, file, readerErr>>

Init ==
    /\ input \in Inputs
    /\ pos = 0
    /\ data = EmptyMap
    /\ sectionName = <<>>
    /\ done = FALSE
    /\ lineNumber = 0
    /\ line = <<>>
    /\ pc = "parse"
    /\ ini = Nil
    /\ err = Nil
    /\ call = Nil
    /\ ret = Nil
    /\ file = "none"
    /\ readerErr = Nil

(***************************************************************************)
(* parseIni, one iteration of its loop per step.                           *)
(***************************************************************************)
CommentChars == {"#", ";"}

StripCommentHashOnly(l) ==
    LET n == IndexAny(l, {"#"})
    IN  IF n >= 0 THEN Slice(l, 0, n) ELSE l

\* "remove comment"
StripComment(l) ==
    LET n == IndexAny(l, CommentChars)
    IN  IF n >= 0 THEN Slice(l, 0, n) ELSE l

SectionInvalidLengthOnly(l) == Len(l) <= 2

\* the test that rejects a line starting with "["
SectionInvalid(l) == Len(l) <= 2 \/ l[Len(l)] # "]"

SectionNameOfNoLower(l) == TrimSpace(Slice(l, 1, Len(l) - 1))

\* sectionName of a section line
SectionNameOf(l) == TrimSpace(ToLower(Slice(l, 1, Len(l) - 1)))

KeyNameOfNoTrim(l, n) == ToLower(Slice(l, 0, n))
KeyNameOfNoLower(l, n) == TrimSpace(Slice(l, 0, n))

\* keyName and keyValue of a line whose first "=" is at 0-based index n
KeyNameOf(l, n) == ToLower(TrimSpace(Slice(l, 0, n)))
KeyValueOf(l, n) == TrimSpace(Slice(l, n + 1, Len(l)))

StoreKeyFirstWins(d, sec, k, v) ==
    LET section == IF sec \in DOMAIN d THEN d[sec] ELSE EmptyMap
    IN  IF k \in DOMAIN section THEN d ELSE MapPut(d, sec, MapPut(section, k, v))

StoreKeyCreateOnly(d, sec, k, v) ==
    IF sec \in DOMAIN d THEN MapPut(d, sec, MapPut(d[sec], k, v))
    ELSE MapPut(d, sec, EmptyMap)

StoreKeyFreshSection(d, sec, k, v) == MapPut(d, sec, MapPut(EmptyMap, k, v))

\* data after "section[keyName] = keyValue", the section being created
\* when data does not have it
StoreKey(d, sec, k, v) ==
    LET section == IF sec \in DOMAIN d THEN d[sec] ELSE EmptyMap
    IN  MapPut(d, sec, MapPut(section, k, v))

\* lineNumber++
NextLineNumber(n) == n + 1

NewErrorZeroBased(msg, n) == [msg |-> msg, line |-> n - 1]

\* errors.New(msg + strconv.Itoa(n))
NewError(msg, n) == [msg |-> msg, line |-> n]

\* The errors a reader can report that are not io.EOF. They carry no line of
\* the text: their line field is 0.
ReaderErrors == {[msg |-> "unexpected EOF", line |-> 0],
                 [msg |-> "i/o timeout", line |-> 0]}

\* The error of os.Open
OpenError == [msg |-> "open: no such file or directory", line |-> 0]

ReadFailureReworded(e, n) == NewError("Read error at line ", n + 1)

\* "if err != nil && err != io.EOF { return nil, err }": what parseIni, and
\* LoadReader after it, returns when the reader fails with e after n lines
ReadFailure(e, n) == e

\* Where a read that fails can leave the reader: ReadString returns the data
\* read before the error, which ends before the line's "\n"
PartialReads(in, p) ==
    LET r == ReadString(in, p)
    IN  IF r.eof THEN p..Len(in) ELSE p..(r.pos - 1)

NoClose(f) == f

\* LoadFile's "defer in.Close()": the file, when LoadFile has opened one, is
\* closed as LoadFile returns
DeferredClose(f) == IF f = "open" THEN "closed" ELSE f

\* "return nil, err" of parseIni, and of LoadReader (and LoadFile) after it
Fail(e) ==
    /\ pc' = "failed"
    /\ ini' = Nil
    /\ err' = e
    /\ file' = DeferredClose(file)
    /\ UNCHANGED <<data, sectionName>>

\* "continue"
Continue ==
    UNCHANGED <<data, sectionName, pc, ini, err, file>>

parseIniIter ==
    /\ pc = "parse"
    /\ ~done
    /\ LET r == ReadString(input, pos)
           num == NextLineNumber(lineNumber)
           l == TrimSpace(StripComment(r.line))
           ln == Len(l)
           n == IndexRune(l, "=")
       IN  /\ pos' = r.pos
           /\ done' = r.eof
           /\ lineNumber' = num
           /\ line' = l
           /\ IF ln = 0 THEN Continue
              ELSE IF l[1] = "["
              THEN IF SectionInvalid(l)
                   THEN Fail(NewError("Invalid section at line ", num))
                   ELSE /\ sectionName' = SectionNameOf(l)
                        /\ UNCHANGED <<data, pc, ini, err, file>>
              ELSE IF n < 0
              THEN Fail(NewError("Invalid format at line ", num))
              ELSE IF sectionName = <<>>
              THEN Fail(NewError("Key without section at line ", num))
              ELSE IF KeyNameOf(l, n) = <<>>
              THEN Fail(NewError("Empty key at line ", num))
              ELSE /\ data' = StoreKey(data, sectionName, KeyNameOf(l, n),
                                       KeyValueOf(l, n))
                   /\ UNCHANGED <<sectionName, pc, ini, err, file>>
    /\ UNCHANGED <<input, callVars, readerErr>>

\* the loop ends, parseIni returns data and LoadReader wraps it in an Ini
LoadReaderReturn ==
    /\ pc = "parse"
    /\ done
    /\ pc' = "ready"
    /\ ini' = [sections |-> data]
    /\ err' = Nil
    /\ file' = DeferredClose(file)
    /\ UNCHANGED <<input, parseVars, callVars, readerErr>>

\* ReadString fails with an error that is not io.EOF: parseIni returns it
\* before it counts or looks at the line
parseIniReadError ==
    /\ pc = "parse"
    /\ ~done
    /\ \E e \in ReaderErrors, p \in PartialReads(input, pos) :
          /\ readerErr' = e
          /\ pos' = p
          /\ Fail(ReadFailure(e, lineNumber))
    /\ UNCHANGED <<input, done, lineNumber, line, callVars>>

\* os.Open succeeds: LoadFile goes on to LoadReader(in)
LoadFileOpen ==
    /\ pc = "open"
    /\ pc' = "parse"
    /\ file' = "open"
    /\ UNCHANGED <<input, parseVars, ini, err, callVars, readerErr>>

\* os.Open fails: "return nil, err"
LoadFileOpenError ==
    /\ pc = "open"
    /\ pc' = "failed"
    /\ ini' = Nil
    /\ err' = OpenError
    /\ UNCHANGED <<input, parseVars, callVars, ioVars>>

(***************************************************************************)
(* parseIni and LoadReader as functions of the text behind the reader.     *)
(***************************************************************************)
\* the locals of parseIni after one more iteration of its loop; err is set
\* when the iteration returns an error
parseIniStep(in, st) ==
    LET r == ReadString(in, st.pos)
        num == NextLineNumber(st.lineNumber)
        l == TrimSpace(StripComment(r.line))
        n == IndexRune(l, "=")
        read == [st EXCEPT !.pos = r.pos, !.done = r.eof, !.lineNumber = num]
    IN  IF Len(l) = 0 THEN read
        ELSE IF l[1] = "["
        THEN IF SectionInvalid(l)
             THEN [read EXCEPT !.err = NewError("Invalid section at line ", num)]
             ELSE [read EXCEPT !.sectionName = SectionNameOf(l)]
        ELSE IF n < 0
        THEN [read EXCEPT !.err = NewError("Invalid format at line ", num)]
        ELSE IF st.sectionName = <<>>
        THEN [read EXCEPT !.err = NewError("Key without section at line ", num)]
        ELSE IF KeyNameOf(l, n) = <<>>
        THEN [read EXCEPT !.err = NewError("Empty key at line ", num)]
        ELSE [read EXCEPT !.data = StoreKey(st.data, st.sectionName,
                                            KeyNameOf(l, n), KeyValueOf(l, n))]

RECURSIVE parseIniFrom(_, _)
\* what parseIni returns when its locals are st
parseIniFrom(in, st) ==
    IF st.err # Nil THEN [data |-> Nil, err |-> st.err]
    ELSE IF st.done THEN [data |-> st.data, err |-> Nil]
    ELSE parseIniFrom(in, parseIniStep(in, st))

\* what parseIni returns for the text in
parseIni(in) ==
    parseIniFrom(in, [pos |-> 0, data |-> EmptyMap, sectionName |-> <<>>,
                      done |-> FALSE, lineNumber |-> 0, err |-> Nil])

\* what LoadReader returns for the text in
LoadReader(in) ==
    LET res == parseIni(in)
    IN  IF res.err # Nil THEN [ini |-> Nil, err |-> res.err]
        ELSE [ini |-> [sections |-> res.data], err |-> Nil]

(***************************************************************************)
(* The accessors of *Ini.                                                  *)
(***************************************************************************)
LookupInserts(m, k) == IF k \in DOMAIN m THEN m ELSE MapPut(m, k, EmptyMap)

\* the map m after the index expression m[k]: reading a Go map leaves it
\* as it is, also when k is missing
AfterLookup(m, k) == m

Read(f, sec, key) ==
    IF sec \notin DOMAIN f.sections THEN <<>>
    ELSE IF key \in DOMAIN f.sections[sec] THEN f.sections[sec][key] ELSE <<>>

SectionExists(f, sec) == sec \in DOMAIN f.sections

KeyExists(f, sec, key) ==
    IF sec \notin DOMAIN f.sections THEN FALSE
    ELSE key \in DOMAIN f.sections[sec]

\* the slices SectionList may return: the map's keys in any order
SectionList(f) == Orders(DOMAIN f.sections)

\* the slices KeyList may return
KeyList(f, sec) ==
    IF sec \notin DOMAIN f.sections THEN {<<>>}
    ELSE Orders(DOMAIN f.sections[sec])

CallRead ==
    /\ pc = "ready"
    /\ \E s \in ArgNames, k \in ArgNames :
          /\ call' = [op |-> "Read", section |-> s, key |-> k]
          /\ ret' = Read(ini, s, k)
    /\ ini' = [sections |-> AfterLookup(ini.sections, call'.section)]
    /\ UNCHANGED <<input, parseVars, pc, err, ioVars>>

CallSectionExists ==
    /\ pc = "ready"
    /\ \E s \in ArgNames :
          /\ call' = [op |-> "SectionExists", section |-> s, key |-> <<>>]
          /\ ret' = SectionExists(ini, s)
    /\ ini' = [sections |-> AfterLookup(ini.sections, call'.section)]
    /\ UNCHANGED <<input, parseVars, pc, err, ioVars>>

CallKeyExists ==
    /\ pc = "ready"
    /\ \E s \in ArgNames, k \in ArgNames :
          /\ call' = [op |-> "KeyExists", section |-> s, key |-> k]
          /\ ret' = KeyExists(ini, s, k)
    /\ ini' = [sections |-> AfterLookup(ini.sections, call'.section)]
    /\ UNCHANGED <<input, parseVars, pc, err, ioVars>>

CallSectionList ==
    /\ pc = "ready"
    /\ \E lst \in SectionList(ini) :
          /\ call' = [op |-> "SectionList", section |-> <<>>, key |-> <<>>]
          /\ ret' = lst
    /\ UNCHANGED <<input, parseVars, pc, ini, err, ioVars>>

CallKeyList ==
    /\ pc = "ready"
    /\ \E s \in ArgNames :
          \E lst \in KeyList(ini, s) :
             /\ call' = [op |-> "KeyList", section |-> s, key |-> <<>>]
             /\ ret' = lst
    /\ ini' = [sections |-> AfterLookup(ini.sections, call'.section)]
    /\ UNCHANGED <<input, parseVars, pc, err, ioVars>>

Next ==
    \/ parseIniIter
    \/ LoadReaderReturn
    \/ CallRead
    \/ CallSectionExists
    \/ CallKeyExists
    \/ CallSectionList
    \/ CallKeyList

Spec == Init /\ [][Next]_vars

\* One call of LoadReader, from its entry to its return. It runs to its
\* return: the loop of parseIni is sequential code that nothing suspends, so
\* an iteration that can run does run, and so does the return after the loop.
NextLoad ==
    \/ parseIniIter
    \/ LoadReaderReturn

\* "for !done": the condition under which the loop runs one more iteration
LoopRuns == pc = "parse" /\ ~done

\* WF_vars(parseIniIter), with ENABLED <<parseIniIter>>_vars written as the
\* loop condition it is equivalent to
LoopFairness == []<>(~LoopRuns) \/ []<><<parseIniIter>>_vars

SpecLoad ==
    Init /\ [][NextLoad]_vars /\ LoopFairness /\ WF_vars(LoadReaderReturn)

\* LoadReader on a reader that can fail
NextIO ==
    \/ parseIniIter
    \/ parseIniReadError
    \/ LoadReaderReturn
    \/ CallRead
    \/ CallSectionExists
    \/ CallKeyExists
    \/ CallSectionList
    \/ CallKeyList

SpecIO == Init /\ [][NextIO]_vars

\* LoadFile: the state before os.Open
InitFile ==
    /\ input \in Inputs
    /\ pos = 0
    /\ data = EmptyMap
    /\ sectionName = <<>>
    /\ done = FALSE
    /\ lineNumber = 0
    /\ line = <<>>
    /\ pc = "open"
    /\ ini = Nil
    /\ err = Nil
    /\ call = Nil
    /\ ret = Nil
    /\ file = "none"
    /\ readerErr = Nil

NextFile ==
    \/ LoadFileOpen
    \/ LoadFileOpenError
    \/ parseIniIter
    \/ parseIniReadError
    \/ LoadReaderReturn
    \/ CallRead
    \/ CallSectionExists
    \/ CallKeyExists
    \/ CallSectionList
    \/ CallKeyList

SpecFile == InitFile /\ [][NextFile]_vars

(***************************************************************************)
(* The input as the format describes it: its lines, and what each line     *)
(* says. These definitions read the text only; they use none of the        *)
(* parser's definitions.                                                   *)
(***************************************************************************)
RECURSIVE SplitLines(_)
\* the lines of a text, each without its "\n"
SplitLines(s) ==
    LET nls == {i \in 1..Len(s) : s[i] = "\n"}
    IN  IF nls = {} THEN <<s>>
        ELSE <<SubSeq(s, 1, SetMin(nls) - 1)>>
                \o SplitLines(SubSeq(s, SetMin(nls) + 1, Len(s)))

\* a text without its comment
BeforeComment(s) ==
    LET cs == {i \in 1..Len(s) : s[i] = "#" \/ s[i] = ";"}
    IN  IF cs = {} THEN s ELSE SubSeq(s, 1, SetMin(cs) - 1)

\* what the lines of the input say: each line's text without its comment
\* and surrounding whitespace
Contents ==
    LET ls == SplitLines(input)
    IN  [k \in 1..Len(ls) |-> TrimSpace(BeforeComment(ls[k]))]

\* In the definitions below c is what one line says and doc what all lines
\* say (Contents).
IsBlankLine(c) == c = <<>>

\* the line begins with "["
IsHeaderLine(c) == c # <<>> /\ c[1] = "["

\* the line is a header the format of section 7 accepts: longer than two
\* characters and ending with "]"
IsAcceptedHeader(c) == IsHeaderLine(c) /\ Len(c) > 2 /\ c[Len(c)] = "]"

\* the text between the brackets of a header line, trimmed
HeaderText(c) == TrimSpace(SubSeq(c, 2, Len(c) - 1))

\* the name of the section a header line opens: trimmed and lowercased
HeaderName(c) == ToLower(HeaderText(c))

EqualsAt(c) == {i \in 1..Len(c) : c[i] = "="}

\* the line is neither blank nor a header and has an "="
IsKeyValueLine(c) == c # <<>> /\ c[1] # "[" /\ EqualsAt(c) # {}

\* the key of a key=value line: the text before the first "=", trimmed and
\* lowercased
KeyOf(c) == ToLower(TrimSpace(SubSeq(c, 1, SetMin(EqualsAt(c)) - 1)))

\* the value of a key=value line: the text after the first "=", trimmed
ValueOf(c) == TrimSpace(SubSeq(c, SetMin(EqualsAt(c)) + 1, Len(c)))

\* the accepted header lines before line k
HeadersBefore(doc, k) == {j \in 1..(k - 1) : IsAcceptedHeader(doc[j])}

\* the section line k is under: the name of the last accepted header before
\* it, the empty name when there is none
SectionOf(doc, k) ==
    IF HeadersBefore(doc, k) = {} THEN <<>>
    ELSE HeaderName(doc[SetMax(HeadersBefore(doc, k))])

\* the key=value lines under section sec
LinesUnder(doc, sec) ==
    {k \in 1..Len(doc) : IsKeyValueLine(doc[k]) /\ SectionOf(doc, k) = sec}

\* the key=value lines that assign key under section sec
Assigning(doc, sec, key) == {k \in LinesUnder(doc, sec) : KeyOf(doc[k]) = key}

\* the keys assigned under section sec
KeysAssigned(doc, sec) == {KeyOf(doc[k]) : k \in LinesUnder(doc, sec)}

\* the header lines that name section sec
HeadersNaming(doc, sec) ==
    {k \in 1..Len(doc) : IsAcceptedHeader(doc[k]) /\ HeaderName(doc[k]) = sec}

IsLowerName(s) == \A i \in 1..Len(s) : \A j \in 1..Len(Uppers) : s[i] # Uppers[j]

LowerNames == {s \in ArgNames : IsLowerName(s)}

NoDuplicates(lst) == \A i, j \in 1..Len(lst) : lst[i] = lst[j] => i = j
Elements(lst) == {lst[i] : i \in 1..Len(lst)}

\* the accessor op has just returned
Called(op) == pc = "ready" /\ call # Nil /\ call.op = op

(***************************************************************************)
(* C1: after a successful parse, Read with a lowercase section and key     *)
(* returns the trimmed value of the last key=value line that assigned the  *)
(* key under the section, and the empty string when no line did.           *)
(***************************************************************************)
LastAssigned(doc, sec, key) ==
    IF Assigning(doc, sec, key) = {} THEN <<>>
    ELSE ValueOf(doc[SetMax(Assigning(doc, sec, key))])

\* C1: a Read with lowercase names has returned the last assigned value, or
\* the empty string for a pair that was never assigned
C1_ReadLastAssigned ==
    (Called("Read") /\ call.section \in LowerNames /\ call.key \in LowerNames)
    => ret = LastAssigned(Contents, call.section, call.key)

\* a Read of a key that two lines assigned different values has returned
\* the later one
C1_Witness ==
    /\ Called("Read")
    /\ call.section \in LowerNames
    /\ call.key \in LowerNames
    /\ \E i, j \in Assigning(Contents, call.section, call.key) :
          /\ i < j
          /\ j = SetMax(Assigning(Contents, call.section, call.key))
          /\ ValueOf(Contents[i]) # ValueOf(Contents[j])
          /\ ret = ValueOf(Contents[j])

(***************************************************************************)
(* C2: the accessors are case-insensitive: called with names that differ   *)
(* only in letter case, Read returns the same value and SectionExists and  *)
(* KeyExists return the same boolean.                                      *)
(***************************************************************************)
\* C2: each accessor has returned what it returns for the lowercased names
C2_CaseInsensitive ==
    /\ Called("Read")
       => ret = Read(ini, ToLower(call.section), ToLower(call.key))
    /\ Called("SectionExists")
       => ret = SectionExists(ini, ToLower(call.section))
    /\ Called("KeyExists")
       => ret = KeyExists(ini, ToLower(call.section), ToLower(call.key))

(***************************************************************************)
(* C3: a section name that appears in two header lines of a successfully   *)
(* parsed input.                                                           *)
(***************************************************************************)
Repeated(doc, sec) == Cardinality(HeadersNaming(doc, sec)) >= 2

\* the key=value lines that assign key under the last header naming sec
AssigningAfterLast(doc, sec, key) ==
    {k \in Assigning(doc, sec, key) : k > SetMax(HeadersNaming(doc, sec))}

HeaderNames(doc) ==
    {HeaderName(doc[k]) : k \in {j \in 1..Len(doc) : IsAcceptedHeader(doc[j])}}

\* the names of the sections that have a key=value line under them
SectionsWithKeys(doc) ==
    {SectionOf(doc, k) : k \in {j \in 1..Len(doc) : IsKeyValueLine(doc[j])}}

C5_KeyList ==
    (Called("KeyList") /\ call.section \in LowerNames)
    => /\ NoDuplicates(ret)
       /\ Elements(ret) = KeysAssigned(Contents, call.section)
       /\ ~SectionExists(ini, call.section) => ret = <<>>

\* KeyList has returned two keys of a section one of which was assigned
\* twice
C5_Witness ==
    /\ Called("KeyList")
    /\ call.section \in LowerNames
    /\ Len(ret) = 2
    /\ \E key \in Elements(ret) :
          Cardinality(Assigning(Contents, call.section, key)) >= 2

(***************************************************************************)
(* C6: a line that begins with "[" is accepted as a section header only if *)
(* it ends with "]" and the text between the brackets is not empty after   *)
(* trimming; every other such line makes the parse fail with "Invalid      *)
(* section" at that line.                                                  *)
(***************************************************************************)
\* the line the parser has just consumed, as the format reads it
Consumed == Contents[lineNumber]

\* C6: a consumed line that begins with "[" and does not end with "]" or
\* has an empty name has failed the parse with "Invalid section" at its
\* line number
C6_EmptyNameRejected ==
    (lineNumber >= 1 /\ IsHeaderLine(Consumed)
        /\ ~(Consumed[Len(Consumed)] = "]" /\ HeaderText(Consumed) # <<>>))
    => /\ pc = "failed"
       /\ err = [msg |-> "Invalid section at line ", line |-> lineNumber]

(***************************************************************************)
(* C7: a key=value line fails with "Key without section" if and only if no *)
(* header line has been accepted earlier in the input; once a header has   *)
(* been accepted no later line fails with "Key without section".           *)
(***************************************************************************)
KeyWithoutSection ==
    pc = "failed" /\ err.msg = "Key without section at line "

\* C7: a "Key without section" failure has no accepted header before it,
\* and a key=value line with no accepted header before it fails so
C7_SectionStaysOpen ==
    /\ KeyWithoutSection => HeadersBefore(Contents, err.line) = {}
    /\ (lineNumber >= 1 /\ IsKeyValueLine(Consumed)
          /\ HeadersBefore(Contents, lineNumber) = {})
       => KeyWithoutSection

(***************************************************************************)
(* C8: the parse fails at the first malformed line, whatever was stored    *)
(* before it: LoadReader returns an error and no Ini, and nothing after    *)
(* the failing line is read.                                               *)
(***************************************************************************)
\* line k is one the rules of section 4.1 fail on: a line beginning with
\* "[" that is too short or does not end with "]", a line without "=", a
\* key=value line with no section open, or one with an empty key
Rejected(doc, k) ==
    \/ IsHeaderLine(doc[k]) /\ ~IsAcceptedHeader(doc[k])
    \/ doc[k] # <<>> /\ ~IsHeaderLine(doc[k]) /\ EqualsAt(doc[k]) = {}
    \/ IsKeyValueLine(doc[k]) /\ SectionOf(doc, k) = <<>>
    \/ IsKeyValueLine(doc[k]) /\ KeyOf(doc[k]) = <<>>

RejectedLines(doc) == {k \in 1..Len(doc) : Rejected(doc, k)}

\* the number of characters of the input up to the end of line k, its "\n"
\* included
EndOfLine(k) ==
    LET nls == {i \in 1..Len(input) : input[i] = "\n"}
        upto == {i \in nls : Cardinality({j \in nls : j <= i}) = k}
    IN  IF upto = {} THEN Len(input) ELSE SetMin(upto)

\* C8: an Ini is returned only when no line is rejected; otherwise the
\* parse has failed with no Ini, at the first rejected line, having read
\* nothing after it
C8_AbortAtFirst ==
    LET bad == RejectedLines(Contents)
    IN  /\ (pc = "ready" /\ call = Nil) => bad = {}
        /\ pc = "ready" => (ini # Nil /\ err = Nil)
        /\ pc = "failed"
           => /\ bad # {}
              /\ ini = Nil
              /\ err # Nil
              /\ err.line = SetMin(bad)
              /\ lineNumber = SetMin(bad)
              /\ pos = EndOfLine(SetMin(bad))

\* the parse has failed after a key was stored and before the end of the
\* input
C8_Witness ==
    /\ pc = "failed"
    /\ ini = Nil
    /\ data # EmptyMap
    /\ pos < Len(input)

(***************************************************************************)
(* C9: the line number of a parse error is the 1-based position of the     *)
(* offending line in the input; every line consumed counts once, blank and *)
(* comment-only lines included.                                            *)
(***************************************************************************)
NewlinesBefore(p) == Cardinality({i \in 1..p : input[i] = "\n"})

\* C9: lineNumber is the number of lines consumed, and an error carries the
\* position in the input of the rejected line just consumed
C9_LineNumber ==
    /\ lineNumber = NewlinesBefore(pos) + (IF done THEN 1 ELSE 0)
    /\ pc = "failed"
       => /\ err.line = NewlinesBefore(pos - 1) + 1
          /\ Rejected(Contents, err.line)

\* an error at the third line or later, after a blank or comment-only line
\* and a line that is neither
C9_Witness ==
    /\ pc = "failed"
    /\ err.line >= 3
    /\ \E j \in 1..(err.line - 1) : Contents[j] = <<>>
    /\ \E j \in 1..(err.line - 1) : Contents[j] # <<>>

(***************************************************************************)
(* C10: in the map parseIni builds and in the Ini returned, every section  *)
(* name and every key name is non-empty and lowercase.                     *)
(***************************************************************************)
WellNamed(m) ==
    \A s \in DOMAIN m :
        /\ s # <<>>
        /\ IsLowerName(s)
        /\ \A k \in DOMAIN m[s] : k # <<>> /\ IsLowerName(k)

\* C10: the names in data and in the returned Ini are non-empty and
\* lowercase
C10_Names ==
    /\ WellNamed(data)
    /\ ini # Nil => WellNamed(ini.sections)

\* an Ini returned for an input with an uppercase header and an uppercase
\* key
C10_Witness ==
    /\ pc = "ready"
    /\ DOMAIN ini.sections # {}
    /\ \E j, k \in 1..Len(Contents) :
          /\ j < k
          /\ IsAcceptedHeader(Contents[j])
          /\ ~IsLowerName(HeaderText(Contents[j]))
          /\ IsKeyValueLine(Contents[k])
          /\ ~IsLowerName(SubSeq(Contents[k], 1, SetMin(EqualsAt(Contents[k]))))

(***************************************************************************)
(* C11: the Ini is immutable once LoadReader has returned it: no accessor  *)
(* call, with any arguments, the names of absent sections and keys         *)
(* included, changes its sections, their keys or their values.             *)
(***************************************************************************)
\* C11: every step taken after LoadReader has returned leaves ini as it is
C11_Immutable == [][pc = "ready" => ini' = ini]_vars

\* Read has looked up a key of a section that the Ini, which has other
\* sections, does not have
C11_Witness ==
    /\ Called("Read")
    /\ DOMAIN ini.sections # {}
    /\ call.section \notin DOMAIN ini.sections
    /\ ret = <<>>

(***************************************************************************)
(* C12: the first "=" of a key=value line is the separator: the key is the *)
(* trimmed, lowercased text before it and the value the trimmed text after *)
(* it, in its own case and with every further "=".                         *)
(***************************************************************************)
\* the parser has just consumed a key=value line without failing
StoredLine ==
    /\ lineNumber >= 1
    /\ pc # "failed"
    /\ call = Nil
    /\ IsKeyValueLine(Consumed)

\* C12: the line just stored is in data under the text before its first "="
\* with all the text after its first "=" as the value
C12_FirstEquals ==
    StoredLine =>
        LET s == SectionOf(Contents, lineNumber)
            k == KeyOf(Consumed)
        IN  /\ s \in DOMAIN data
            /\ k \in DOMAIN data[s]
            /\ data[s][k] = ValueOf(Consumed)
            /\ EqualsAt(k) = {}
            /\ Cardinality(EqualsAt(data[s][k])) = Cardinality(EqualsAt(Consumed)) - 1

\* a line with two "=" has been stored with the second "=" in its value
C12_Witness ==
    /\ StoredLine
    /\ Cardinality(EqualsAt(Consumed)) = 2
    /\ EqualsAt(data[sectionName][KeyOf(Consumed)]) # {}

(***************************************************************************)
(* C13: on every line the text from the first "#" or ";" on is discarded   *)
(* before any other rule applies: a line that starts with a comment        *)
(* defines no key and raises no error, and no stored section name, key or  *)
(* value holds a "#" or ";".                                               *)
(***************************************************************************)
RawLines == SplitLines(input)

\* the first non-blank character of the text is "#" or ";"
CommentOnly(raw) ==
    TrimSpace(raw) # <<>> /\ (TrimSpace(raw)[1] = "#" \/ TrimSpace(raw)[1] = ";")

NoComment(s) == \A i \in 1..Len(s) : s[i] # "#" /\ s[i] # ";"

HasComment(raw) == ~NoComment(raw)

CommentFree ==
    /\ lineNumber >= 1 => line = Consumed
    /\ NoComment(sectionName)
    /\ \A s \in DOMAIN data :
          /\ NoComment(s)
          /\ \A k \in DOMAIN data[s] : NoComment(k) /\ NoComment(data[s][k])

\* C13: what the parser keeps of each line is its text before the comment,
\* nothing stored holds a comment character, and consuming a comment-only
\* line changes neither the data nor the section and raises no error
C13_CommentsStripped ==
    /\ []CommentFree
    /\ [][(lineNumber' # lineNumber /\ CommentOnly(RawLines[lineNumber']))
            => (data' = data /\ sectionName' = sectionName /\ pc' = "parse")]_vars

\* an Ini returned for an input with a comment-only line and a key=value
\* line that ends in a comment
C13_Witness ==
    /\ pc = "ready"
    /\ DOMAIN ini.sections # {}
    /\ \E k \in 1..Len(RawLines) : CommentOnly(RawLines[k])
    /\ \E k \in 1..Len(RawLines) :
          HasComment(RawLines[k]) /\ IsKeyValueLine(Contents[k])

(***************************************************************************)
(* C14: SectionList returns the section names, and KeyList the key names,  *)
(* in the order of their first appearance in the input, as TestSectionList *)
(* and TestKeyList compare them.                                           *)
(***************************************************************************)
\* the line on which section sec, or key key of section sec, first appears
FirstHeader(doc, sec) == SetMin(HeadersNaming(doc, sec))
FirstAssigned(doc, sec, key) == SetMin(Assigning(doc, sec, key))

\* C14: the names SectionList or KeyList has returned are in the order of
\* their first appearance
C14_FirstAppearanceOrder ==
    LET doc == Contents
    IN  /\ Called("SectionList")
           => \A i, j \in 1..Len(ret) :
                 i < j => FirstHeader(doc, ret[i]) < FirstHeader(doc, ret[j])
        /\ (Called("KeyList") /\ call.section \in LowerNames)
           => \A i, j \in 1..Len(ret) :
                 i < j => FirstAssigned(doc, call.section, ret[i])
                             < FirstAssigned(doc, call.section, ret[j])

(***************************************************************************)
(* C15: a final line without a trailing newline is processed like a line   *)
(* with one: an input and the same input with one "\n" appended give the   *)
(* same Ini, or the same error at the same line.                           *)
(***************************************************************************)
\* LoadReader has just returned
Returned == pc # "parse" /\ call = Nil

\* C15: what LoadReader has returned is what it returns for the input as a
\* whole, and for the input followed by one more "\n"
C15_TrailingNewline ==
    Returned =>
        /\ [ini |-> ini, err |-> err] = LoadReader(input)
        /\ LoadReader(input \o <<"\n">>) = LoadReader(input)

\* an Ini returned for an input whose last line, a key=value line, has no
\* "\n" after it, with the key of that line in it
C15_Witness ==
    /\ Returned
    /\ pc = "ready"
    /\ input # <<>>
    /\ input[Len(input)] # "\n"
    /\ IsKeyValueLine(Contents[Len(Contents)])
    /\ KeyExists(ini, sectionName, KeyOf(Contents[Len(Contents)]))

(***************************************************************************)
(* C16: when the reader reports an error that is not end of input, the     *)
(* load returns that very error and no Ini, however many lines were parsed *)
(* before; the line that was being read is not processed, so the line      *)
(* count and the mapping are those of the whole lines before it.           *)
(***************************************************************************)
WholeLines == SubSeq(input, 1, SetMax({0} \cup {i \in 1..pos : input[i] = "\n"}))

C16_ReaderFailure ==
    readerErr # Nil =>
        /\ pc = "failed"
        /\ err = readerErr
        /\ ini = Nil
        /\ lineNumber = NewlinesBefore(pos)
        /\ parseIni(WholeLines) = [data |-> data, err |-> Nil]

\* the reader fails after it has handed out the whole of a last line that
\* assigns a key, and lines before it have been stored
C16_Witness ==
    /\ readerErr # Nil
    /\ DOMAIN data # {}
    /\ pos = Len(input)
    /\ Len(WholeLines) < pos
    /\ IsKeyValueLine(Contents[Len(Contents)])

(***************************************************************************)
(* C17: LoadFile has released the file on every return: after the parse    *)
(* succeeded, after a parse error, after a read error. When the file       *)
(* cannot be opened there is nothing to release and the error of the open  *)
(* is what LoadFile returns.                                               *)
(***************************************************************************)
C17_FileReleased ==
    /\ pc \in {"ready", "failed"} => file \in {"none", "closed"}
    /\ pc \in {"ready", "failed"} /\ file = "none" =>
            pc = "failed" /\ err = OpenError /\ ini = Nil
    /\ pc = "parse" => file = "open"

\* the file is closed after a read error met in the middle of the text
C17_Witness ==
    /\ pc = "failed"
    /\ file = "closed"
    /\ readerErr # Nil
    /\ DOMAIN data # {}

(***************************************************************************)
(* C18: a line that is neither blank nor a header is judged in this order: *)
(* without "=" it fails with "Invalid format", whether or not a section is *)
(* open; with "=" and no section open (no header accepted before it) it    *)
(* fails with "Key without section", even when its key is empty; with "="  *)
(* in an open section and an empty key it fails with "Empty key"; any      *)
(* other line is stored, under its key, in the open section, with its      *)
(* value, which may be the empty string.                                   *)
(***************************************************************************)
FailedWith(msg) == pc = "failed" /\ err = [msg |-> msg, line |-> lineNumber]

C18_ErrorKindOrder ==
    (lineNumber >= 1 /\ ~IsBlankLine(Consumed) /\ ~IsHeaderLine(Consumed)) =>
        LET c == Consumed
            sec == SectionOf(Contents, lineNumber)
        IN  IF EqualsAt(c) = {}
            THEN FailedWith("Invalid format at line ")
            ELSE IF HeadersBefore(Contents, lineNumber) = {}
            THEN FailedWith("Key without section at line ")
            ELSE IF KeyOf(c) = <<>>
            THEN FailedWith("Empty key at line ")
            ELSE /\ pc # "failed"
                 /\ sec \in DOMAIN data
                 /\ KeyOf(c) \in DOMAIN data[sec]
                 /\ data[sec][KeyOf(c)] = ValueOf(c)

(***************************************************************************)
(* C19: the loop of parseIni comes to an end on every input. Each          *)
(* iteration takes one more line of the input, up to and with that line's  *)
(* newline; once the end of the input has been read no further iteration   *)
(* runs: the load returns after that last line, whatever the line is. A    *)
(* load that returns without error has read all of the input and returns   *)
(* the accumulated mapping, with every key assigned after the last header  *)
(* under that header's section.                                            *)
(***************************************************************************)
LastHeader(doc) == SetMax(HeadersBefore(doc, Len(doc) + 1))

KeysOfLastSection(doc) ==
    IF HeadersBefore(doc, Len(doc) + 1) = {} THEN {}
    ELSE {KeyOf(doc[k]) : k \in {j \in (LastHeader(doc) + 1)..Len(doc) :
                                     IsKeyValueLine(doc[j])}}

ReturnsAll ==
    pc = "ready" =>
        /\ done
        /\ pos = Len(input)
        /\ lineNumber = Len(Contents)
        /\ ini = [sections |-> data]
        /\ KeysOfLastSection(Contents) # {} =>
              /\ HeaderName(Contents[LastHeader(Contents)]) \in DOMAIN ini.sections
              /\ KeysOfLastSection(Contents) \subseteq
                    DOMAIN ini.sections[HeaderName(Contents[LastHeader(Contents)])]

OneLinePerIteration ==
    /\ (pc = "parse" /\ ~done) =>
          /\ lineNumber' = lineNumber + 1
          /\ pos' = EndOfLine(lineNumber')
          /\ done' = (lineNumber' = Len(Contents))
    /\ (pc = "parse" /\ done) =>
          /\ pc' = "ready"
          /\ lineNumber' = lineNumber

C19_Terminates ==
    /\ <>(pc # "parse")
    /\ [][OneLinePerIteration]_vars
    /\ []ReturnsAll

\* the load has returned a mapping with keys after a last line that is a
\* section header
C19_Witness ==
    /\ pc = "ready"
    /\ IsHeaderLine(Contents[Len(Contents)])
    /\ KeysOfLastSection(Contents) = {}
    /\ DOMAIN ini.sections # {}

(***************************************************************************)
(* C20: a section comes into the mapping only with its first key. In every *)
(* state of the parser, and in every Ini returned, each section present    *)
(* has at least one key: where SectionExists(s) is true, KeyList(s) is not *)
(* empty. A line that is a section header leaves the mapping as it was.    *)
(***************************************************************************)
NoEmptySection(m) == \A s \in DOMAIN m : DOMAIN m[s] # {}

SectionsHaveKeys ==
    /\ NoEmptySection(data)
    /\ pc = "ready" =>
          /\ NoEmptySection(ini.sections)
          /\ \A s \in ArgNames :
                SectionExists(ini, s) => \A l \in KeyList(ini, s) : l # <<>>
    /\ (Called("KeyList") /\ SectionExists(ini, call.section)) => ret # <<>>

HeaderKeepsMapping ==
    (lineNumber' # lineNumber /\ IsHeaderLine(Contents[lineNumber'])) =>
        data' = data

C20_SectionsHaveKeys == []SectionsHaveKeys /\ [][HeaderKeepsMapping]_vars

\* SectionExists has answered false for the name of a header the text has,
\* in an Ini that has sections
C20_Witness ==
    /\ Called("SectionExists")
    /\ ret = FALSE
    /\ call.section \in HeaderNames(Contents)
    /\ DOMAIN ini.sections # {}

====
